---- MODULE Spec2Model ----
(***************************************************************************)
(* Bi-illumination Dichromatic Reflection: the log-RGB transforms, the ISD *)
(* estimation, the orthonormal basis of the ISD-orthogonal plane, the      *)
(* plane projection and the lit/shadow trajectory ("cylinder").            *)
(*                                                                         *)
(* NumPy's float arrays are modelled in fixed point.  A linear radiance is *)
(* an integer count of 1e-8 (RAD units, so that the clamp floors 1e-8 and  *)
(* 1e-6 are representable); every other real (a log value, a direction, a *)
(* plane coordinate) is an integer count of 1e-4 (ONE units).  Every       *)
(* arithmetic step rounds to the nearest unit, as every float step rounds  *)
(* to the nearest float.  The IEEE special values -inf, +inf and NaN are   *)
(* kept, because np.log and the unguarded division produce them.           *)
(***************************************************************************)
EXTENDS Integers, Sequences, FiniteSets, TLC

\* ------------------------------------------------------------ scalars

\* Operator arguments are passed by name.  Let1, Let2 and Let3 evaluate their
\* first arguments once and hand the values to F, as a Python call evaluates its
\* arguments before the body runs.
Let1(e, F(_)) == CHOOSE r \in { F(x) : x \in {e} } : TRUE
Let2(e1, e2, F(_, _)) == CHOOSE r \in { F(x, y) : x \in {e1}, y \in {e2} } : TRUE
Let3(e1, e2, e3, F(_, _, _)) ==
    CHOOSE r \in { F(x, y, z) : x \in {e1}, y \in {e2}, z \in {e3} } : TRUE

ONE == 10 ^ 4
RAD == 10 ^ 8

PosInf == 2 ^ 30
NegInf == 0 - (2 ^ 30)
NaN == (2 ^ 30) + 1

IsNaN(x) == x = NaN
IsInf(x) == x = PosInf \/ x = NegInf
IsFinite(x) == ~IsNaN(x) /\ ~IsInf(x)

Abs(x) == IF x < 0 THEN 0 - x ELSE x
Sign(x) == IF x < 0 THEN 0 - 1 ELSE IF x > 0 THEN 1 ELSE 0
MaxOf(a, b) == IF a >= b THEN a ELSE b
MinOf(a, b) == IF a <= b THEN a ELSE b

\* round(n / d) for n >= 0, d > 0, to the nearest integer
RoundDivPos(n, d) == (n + (d \div 2)) \div d

\* round(a * ONE / d) for a >= 0, d > 0, by long division in base 100 (the
\* products stay below 2^31 for d < 2 * 10^7)
MulDivPos(a, d) ==
    Let1((a % d) * 100, LAMBDA r1 :
        (a \div d) * ONE + (r1 \div d) * 100 + RoundDivPos((r1 % d) * 100, d))

\* round(a * b / ONE) for finite a, b, computed without overflow
MulPos(a, b) == (a \div ONE) * b + RoundDivPos((a % ONE) * b, ONE)

\* IEEE negation, addition, subtraction
FNeg(a) == Let1(a, LAMBDA x : IF IsNaN(x) THEN NaN ELSE 0 - x)

FAdd(a, b) ==
    Let2(a, b, LAMBDA x, y :
        IF IsNaN(x) \/ IsNaN(y) THEN NaN
        ELSE IF IsInf(x) /\ IsInf(y) THEN (IF x = y THEN x ELSE NaN)
        ELSE IF IsInf(x) THEN x
        ELSE IF IsInf(y) THEN y
        ELSE x + y)

FSub(a, b) == FAdd(a, FNeg(b))

\* IEEE product of two ONE-scaled values (or of a RAD-scaled and a ONE-scaled
\* value, which is RAD-scaled)
FMul(a, b) ==
    Let2(a, b, LAMBDA x, y :
        IF IsNaN(x) \/ IsNaN(y) THEN NaN
        ELSE IF IsInf(x) \/ IsInf(y)
             THEN (IF x = 0 \/ y = 0 THEN NaN
                   ELSE IF Sign(x) * Sign(y) > 0 THEN PosInf ELSE NegInf)
        ELSE Sign(x) * Sign(y) * MulPos(Abs(x), Abs(y)))

\* IEEE quotient a / b of two values of one scale, ONE-scaled: x / 0 is +-inf,
\* 0 / 0 is NaN (NumPy warns and goes on)
FDiv(a, b) ==
    Let2(a, b, LAMBDA x, y :
        IF IsNaN(x) \/ IsNaN(y) THEN NaN
        ELSE IF IsInf(x) THEN (IF IsInf(y) THEN NaN
                               ELSE IF Sign(x) * (IF y < 0 THEN 0 - 1 ELSE 1) > 0
                                    THEN PosInf ELSE NegInf)
        ELSE IF IsInf(y) THEN 0
        ELSE IF y = 0 THEN (IF x = 0 THEN NaN ELSE IF x > 0 THEN PosInf ELSE NegInf)
        ELSE Sign(x) * Sign(y) * MulDivPos(Abs(x), Abs(y)))

\* IEEE comparison a < b: false when either side is NaN
FLess(a, b) == Let2(a, b, LAMBDA x, y : ~IsNaN(x) /\ ~IsNaN(y) /\ x < y)

\* np.min / np.max of two values: NaN propagates
FMin(a, b) == Let2(a, b, LAMBDA x, y : IF IsNaN(x) \/ IsNaN(y) THEN NaN ELSE MinOf(x, y))
FMax(a, b) == Let2(a, b, LAMBDA x, y : IF IsNaN(x) \/ IsNaN(y) THEN NaN ELSE MaxOf(x, y))

\* floor(sqrt(n)) by Newton's iteration, then rounded to the nearest integer
RECURSIVE SqrtIter(_, _)
SqrtIter(n, x) ==
    Let1((x + (n \div x)) \div 2, LAMBDA y : IF y >= x THEN x ELSE SqrtIter(n, y))

ISqrt(n) ==
    Let1(n, LAMBDA m :
        IF m < 2 THEN m
        ELSE Let1(SqrtIter(m, 46340), LAMBDA r : IF m - r * r > r THEN r + 1 ELSE r))

\* ------------------------------------------------------------ np.log

RECURSIVE Log2Floor(_)
Log2Floor(x) == Let1(x, LAMBDA y : IF y < 2 THEN 0 ELSE 1 + Log2Floor(y \div 2))

\* ln(m) for m = mant / 2^15 in [1, 2), in units of 2^-15:
\* 2 * atanh(z) with z = (m - 1) / (m + 1) < 1/3, to the z^9 term
LnMantissa(mant) ==
    Let1(RoundDivPos((mant - 32768) * 32768, mant + 32768), LAMBDA z :
    Let1(RoundDivPos(z * z, 32768), LAMBDA z2 :
    Let1(RoundDivPos(z * z2, 32768), LAMBDA z3 :
    Let1(RoundDivPos(z3 * z2, 32768), LAMBDA z5 :
    Let1(RoundDivPos(z5 * z2, 32768), LAMBDA z7 :
    Let1(RoundDivPos(z7 * z2, 32768), LAMBDA z9 :
        2 * z + RoundDivPos(2 * z3, 3) + RoundDivPos(2 * z5, 5)
              + RoundDivPos(2 * z7, 7) + RoundDivPos(2 * z9, 9)))))))

\* ln(x / RAD) in ONE units for an integer x >= 1:
\* x = mant * 2^(k - 15), ln x = k ln 2 + ln(mant / 2^15), minus ln(10^8)
LnRad(x) ==
    Let1(Log2Floor(x), LAMBDA k :
    Let1(IF k >= 15 THEN x \div (2 ^ (k - 15)) ELSE x * (2 ^ (15 - k)), LAMBDA mant :
    Let1(k * 693147 - 18420681 + RoundDivPos(LnMantissa(mant) * 15625, 512), LAMBDA t :
        IF t >= 0 THEN RoundDivPos(t, 100) ELSE 0 - RoundDivPos(0 - t, 100))))

\* np.log of a RAD-scaled radiance: log(0) = -inf, log(negative) = NaN
FLog(a) ==
    Let1(a, LAMBDA x :
        IF IsNaN(x) THEN NaN
        ELSE IF x = PosInf THEN PosInf
        ELSE IF x < 0 THEN NaN
        ELSE IF x = 0 THEN NegInf
        ELSE LnRad(x))

\* ------------------------------------------------------------ arrays

\* A 3-vector is a tuple <<x, y, z>>; a batch (an n x 3 array) is a sequence
\* of 3-vectors; a 1-d array of scalars is a sequence of scalars.

Zero3 == <<0, 0, 0>>
AxisX == <<ONE, 0, 0>>
AxisY == <<0, ONE, 0>>

VAdd(a, b) ==
    Let2(a, b, LAMBDA x, y : <<FAdd(x[1], y[1]), FAdd(x[2], y[2]), FAdd(x[3], y[3])>>)
VSub(a, b) ==
    Let2(a, b, LAMBDA x, y : <<FSub(x[1], y[1]), FSub(x[2], y[2]), FSub(x[3], y[3])>>)
VMul(a, b) ==
    Let2(a, b, LAMBDA x, y : <<FMul(x[1], y[1]), FMul(x[2], y[2]), FMul(x[3], y[3])>>)
VScale(s, v) ==
    Let2(s, v, LAMBDA k, x : <<FMul(k, x[1]), FMul(k, x[2]), FMul(k, x[3])>>)
VDivS(v, s) ==
    Let2(v, s, LAMBDA x, k : <<FDiv(x[1], k), FDiv(x[2], k), FDiv(x[3], k)>>)
VLog(v) == Let1(v, LAMBDA x : <<FLog(x[1]), FLog(x[2]), FLog(x[3])>>)

\* np.dot of two 3-vectors
Dot(a, b) ==
    Let2(a, b, LAMBDA x, y :
        FAdd(FAdd(FMul(x[1], y[1]), FMul(x[2], y[2])), FMul(x[3], y[3])))

\* np.cross of two 3-vectors
Cross(a, b) ==
    Let2(a, b, LAMBDA x, y :
        << FSub(FMul(x[2], y[3]), FMul(x[3], y[2])),
           FSub(FMul(x[3], y[1]), FMul(x[1], y[3])),
           FSub(FMul(x[1], y[2]), FMul(x[2], y[1])) >>)

VecFinite(v) == IsFinite(v[1]) /\ IsFinite(v[2]) /\ IsFinite(v[3])
VecHasNaN(v) == IsNaN(v[1]) \/ IsNaN(v[2]) \/ IsNaN(v[3])

\* np.linalg.norm of a 3-vector: sqrt of the sum of squares.  Components
\* above 2.6 are scaled down first so that the squares fit.
Norm(v) ==
    Let1(v, LAMBDA x :
        IF VecHasNaN(x) THEN NaN
        ELSE IF ~VecFinite(x) THEN PosInf
        ELSE Let1(MaxOf(Abs(x[1]), MaxOf(Abs(x[2]), Abs(x[3]))), LAMBDA m :
             Let1(IF m <= 26000 THEN 1 ELSE (m \div 26000) + 1, LAMBDA s :
             Let1([i \in 1..3 |-> RoundDivPos(Abs(x[i]), s)], LAMBDA c :
                 s * ISqrt(c[1] * c[1] + c[2] * c[2] + c[3] * c[3])))))

\* x / (n + 1e-12) for a norm n >= 0.  The stabilizer 1e-12 is below the
\* model's resolution: it decides the quotient only when n = 0, where the
\* numerator (a component of the zero vector) is 0 and the quotient is 0.
DivStab(a, b) == Let2(a, b, LAMBDA x, n : IF n = 0 /\ x = 0 THEN 0 ELSE FDiv(x, n))

VDivStab(v, n) ==
    Let2(v, n, LAMBDA x, k : <<DivStab(x[1], k), DivStab(x[2], k), DivStab(x[3], k)>>)

\* elementwise maps over a batch
BatchSubV(B, v) == Let2(B, v, LAMBDA X, y : [i \in 1..Len(X) |-> VSub(X[i], y)])
BatchSub(B, C) == Let2(B, C, LAMBDA X, Y : [i \in 1..Len(X) |-> VSub(X[i], Y[i])])
BatchAdd(B, C) == Let2(B, C, LAMBDA X, Y : [i \in 1..Len(X) |-> VAdd(X[i], Y[i])])
VAddBatch(v, B) == Let2(v, B, LAMBDA x, Y : [i \in 1..Len(Y) |-> VAdd(x, Y[i])])
BatchMulV(B, v) == Let2(B, v, LAMBDA X, y : [i \in 1..Len(X) |-> VMul(X[i], y)])
BatchLog(B) == Let1(B, LAMBDA X : [i \in 1..Len(X) |-> VLog(X[i])])

\* B @ u: one dot product per row
MatVec(B, u) == Let2(B, u, LAMBDA X, y : [i \in 1..Len(X) |-> Dot(X[i], y)])

\* np.outer(a, u): row i is a[i] * u
Outer(a, u) == Let2(a, u, LAMBDA x, y : [i \in 1..Len(x) |-> VScale(x[i], y)])

\* B.mean(axis=0): the column sums divided by the row count
RECURSIVE ColSum(_, _)
ColSum(B, n) == IF n = 0 THEN Zero3 ELSE VAdd(ColSum(B, n - 1), B[n])

Mean0(B) == Let1(B, LAMBDA X : VDivS(ColSum(X, Len(X)), Len(X) * ONE))

\* ------------------------------------------------------------ names and objects

\* Python's names and objects: a store holds the array objects and binds each
\* name of a frame to one of them.  "x = e" binds x to a new object; "x op= e"
\* writes into the object x is bound to, which every other name bound to it
\* sees.

Bind(st, name, val) ==
    Let1(st, LAMBDA s :
        [objs |-> Append(s.objs, val),
         env  |-> [n \in DOMAIN s.env \cup {name} |->
                     IF n = name THEN Len(s.objs) + 1 ELSE s.env[n]]])

Aug(st, name, val) ==
    Let1(st, LAMBDA s : [objs |-> [s.objs EXCEPT ![s.env[name]] = val], env |-> s.env])

Val(st, name) == Let1(st, LAMBDA s : s.objs[s.env[name]])

\* a call: the callee's frame binds its parameters to the caller's objects
Frame(objs, params) == [objs |-> objs, env |-> params]

\* the caller's frame after a call returned: its names, the objects as the
\* callee left them
Back(call, st) == [objs |-> call.objs, env |-> st.env]

\* ------------------------------------------------------------ chroma_plane_2d_3d.py

EpsChroma == 1
HelperThreshold == 9000

\* variant: np.log(I), the clip left out
ClipMin_None(a, eps) == a

\* np.clip(I, eps, None): each component raised to at least eps (NaN stays)
ClipMin(a, eps) == Let1(a, LAMBDA x : IF IsNaN(x) THEN NaN ELSE MaxOf(x, eps))

ClipVec(v, eps) ==
    Let1(v, LAMBDA x : <<ClipMin(x[1], eps), ClipMin(x[2], eps), ClipMin(x[3], eps)>>)

Clip(B, eps) == Let1(B, LAMBDA X : [i \in 1..Len(X) |-> ClipVec(X[i], eps)])

\* to_log_rgb(I, eps): np.log(np.clip(I, eps, None)).  Both calls build new
\* arrays; the frame is left as it was.
to_log_rgb(st, eps) ==
    Let1(st, LAMBDA s : [objs |-> s.objs, ret |-> BatchLog(Clip(Val(s, "I"), eps))])

\* variant: v /= (np.linalg.norm(v) + 1e-12), written into the caller's array
BasisNormalize_InPlace(st) ==
    Let1(st, LAMBDA s : Aug(s, "v", VDivStab(Val(s, "v"), Norm(Val(s, "v")))))

\* v = v / (np.linalg.norm(v) + 1e-12): a new array, bound to the local name v
BasisNormalize(st) ==
    Let1(st, LAMBDA s : Bind(s, "v", VDivStab(Val(s, "v"), Norm(Val(s, "v")))))

\* variant: the helper is always X
HelperAxis_AlwaysX(v) == AxisX

\* the helper axis: X unless |v[0]| >= 0.9, then Y
HelperAxis(v) == Let1(v, LAMBDA x : IF Abs(x[1]) < HelperThreshold THEN AxisX ELSE AxisY)

\* u1 = a - np.dot(a, v) * v
Rejection(a, v) == Let2(a, v, LAMBDA x, y : VSub(x, VScale(Dot(x, y), y)))

\* a = helper; u1 = a - np.dot(a, v) * v: two new arrays
BasisReject(st) ==
    Let1(st, LAMBDA s0 :
    Let1(Bind(s0, "a", HelperAxis(Val(s0, "v"))), LAMBDA s1 :
        Bind(s1, "u1", Rejection(Val(s1, "a"), Val(s1, "v")))))

\* u1 /= (np.linalg.norm(u1) + 1e-12): written into the array u1 names
BasisU1(st) ==
    Let1(st, LAMBDA s : Aug(s, "u1", VDivStab(Val(s, "u1"), Norm(Val(s, "u1")))))

\* variant: u2 = np.cross(u1, v), the operands swapped
BasisU2_Swapped(st) ==
    Let1(st, LAMBDA s0 :
    Let1(Bind(s0, "u2", Cross(Val(s0, "u1"), Val(s0, "v"))), LAMBDA s1 :
        Aug(s1, "u2", VDivStab(Val(s1, "u2"), Norm(Val(s1, "u2"))))))

\* u2 = np.cross(v, u1); u2 /= (np.linalg.norm(u2) + 1e-12)
BasisU2(st) ==
    Let1(st, LAMBDA s0 :
    Let1(Bind(s0, "u2", Cross(Val(s0, "v"), Val(s0, "u1"))), LAMBDA s1 :
        Aug(s1, "u2", VDivStab(Val(s1, "u2"), Norm(Val(s1, "u2"))))))

\* orthonormal_basis_from_vector(v): returns (u1, u2)
orthonormal_basis_from_vector(st) ==
    Let1(BasisU2(BasisU1(BasisReject(BasisNormalize(st)))), LAMBDA s :
        [objs |-> s.objs, ret |-> <<Val(s, "u1"), Val(s, "u2")>>])

\* variant: dp = points, the origin not subtracted
PlaneOffsets_NoOrigin(st) ==
    Let1(st, LAMBDA s : Bind(s, "dp", Val(s, "points")))

\* dp = points - origin
PlaneOffsets(st) ==
    Let1(st, LAMBDA s : Bind(s, "dp", BatchSubV(Val(s, "points"), Val(s, "origin"))))

\* variant: b = dp @ u1, both coordinates taken along u1
PlaneCoords_SameAxis(st) ==
    Let1(st, LAMBDA s0 :
    Let1(Bind(s0, "a", MatVec(Val(s0, "dp"), Val(s0, "u1"))), LAMBDA s1 :
        Bind(s1, "b", MatVec(Val(s1, "dp"), Val(s1, "u1")))))

\* a = dp @ u1; b = dp @ u2
PlaneCoords(st) ==
    Let1(st, LAMBDA s0 :
    Let1(Bind(s0, "a", MatVec(Val(s0, "dp"), Val(s0, "u1"))), LAMBDA s1 :
        Bind(s1, "b", MatVec(Val(s1, "dp"), Val(s1, "u2")))))

\* origin + np.outer(a, u1) + np.outer(b, u2)
PlanePoints(origin, a, u1, b, u2) ==
    BatchAdd(VAddBatch(origin, Outer(a, u1)), Outer(b, u2))

\* project_onto_plane(points, origin, u1, u2): returns (projected, a, b)
project_onto_plane(st) ==
    Let1(PlaneOffsets(st), LAMBDA s1 :
    Let1(PlaneCoords(s1), LAMBDA s :
        [objs |-> s.objs,
         ret  |-> << PlanePoints(Val(s, "origin"), Val(s, "a"), Val(s, "u1"),
                                 Val(s, "b"), Val(s, "u2")),
                     Val(s, "a"), Val(s, "b") >>]))

\* to_log_rgb applied to one 3-vector (NumPy's functions take any shape)
to_log_rgb_vec(st, eps) ==
    Let1(st, LAMBDA s : [objs |-> s.objs, ret |-> VLog(ClipVec(Val(s, "I"), eps))])

\* isd = to_log_rgb(A + D) - to_log_rgb(A); isd /= (np.linalg.norm(isd) + 1e-12)
\* A + D is a temporary; to_log_rgb(A) is handed the array A itself
DemoIsd(st) ==
    Let1(Bind(st, "A+D", VAdd(Val(st, "A"), Val(st, "D"))), LAMBDA s1 :
    Let1(to_log_rgb_vec(Frame(s1.objs, [n \in {"I"} |-> s1.env["A+D"]]), EpsChroma), LAMBDA c1 :
    Let1(to_log_rgb_vec(Frame(c1.objs, [n \in {"I"} |-> s1.env["A"]]), EpsChroma), LAMBDA c2 :
    Let1(Bind(Back(c2, s1), "isd", VSub(c1.ret, c2.ret)), LAMBDA s2 :
        Aug(s2, "isd", VDivStab(Val(s2, "isd"), Norm(Val(s2, "isd"))))))))

\* demo_plane_visualization, from the sample cloud I to the projection: the
\* statements of lines 36 to 48.  A call hands the callee the caller's objects
\* and takes them back as the callee left them.
demo_plane_visualization(st) ==
    Let1(st, LAMBDA s0 :
    Let1(to_log_rgb(Frame(s0.objs, [n \in {"I"} |-> s0.env["I"]]), EpsChroma), LAMBDA c1 :
    Let1(DemoIsd(Bind(Back(c1, s0), "L", c1.ret)), LAMBDA s2 :
    Let1(orthonormal_basis_from_vector(Frame(s2.objs, [n \in {"v"} |-> s2.env["isd"]])),
         LAMBDA c2 :
    Let1(Bind(Bind(Back(c2, s2), "u1", c2.ret[1]), "u2", c2.ret[2]), LAMBDA s3 :
    Let1(Bind(s3, "origin", Mean0(Val(s3, "L"))), LAMBDA s4 :
    Let1(project_onto_plane(
             Frame(s4.objs, [n \in {"points", "origin", "u1", "u2"} |->
                               IF n = "points" THEN s4.env["L"] ELSE s4.env[n]])),
         LAMBDA c3 :
        Bind(Bind(Bind(Back(c3, s4), "L_proj", c3.ret[1]), "a2d", c3.ret[2]),
             "b2d", c3.ret[3]))))))))

\* ------------------------------------------------------------ simulate_cylinder.py

SampleCount == 50

\* shadow = lit * np.array([0.5, 0.6, 0.9]): the factor is broadcast over the rows
Shadow(lit, factor) == BatchMulV(lit, factor)

\* lit_log = np.log(lit); shadow_log = np.log(shadow): no clamp
LitLog(lit) == BatchLog(lit)

\* variant: the difference taken shadow minus lit
IsdMean_Reversed(lit_log, shadow_log) == Mean0(BatchSub(shadow_log, lit_log))

\* isd = np.mean(lit_log - shadow_log, axis=0)
IsdMean(lit_log, shadow_log) == Mean0(BatchSub(lit_log, shadow_log))

\* variant: the mean difference returned without normalizing it
IsdUnit_Raw(m) == m

\* isd /= np.linalg.norm(isd): no stabilizer, 0 / 0 is NaN
IsdUnit(m) == Let1(m, LAMBDA x : VDivS(x, Norm(x)))

\* variant: np.linspace(0, 1, n, endpoint=False)
Linspace_NoEndpoint(n) == [i \in 1..n |-> FDiv((i - 1) * ONE, n * ONE)]

\* np.linspace(0, 1, n), n >= 2: n evenly spaced values, both ends included
Linspace(n) == [i \in 1..n |-> IF i = n THEN ONE ELSE FDiv((i - 1) * ONE, (n - 1) * ONE)]

\* cylinder = shadow_log.mean(0) + t[:, None] * (lit_log.mean(0) - shadow_log.mean(0))
Cylinder(shadow_log, lit_log, t) ==
    Let2(Mean0(shadow_log), t, LAMBDA S, ts :
    Let1(VSub(Mean0(lit_log), S), LAMBDA d :
        [i \in 1..Len(ts) |-> VAdd(S, VScale(ts[i], d))]))

\* the script from the log samples on (lines 49 to 70)
CylinderFromLogs(lit_log, shadow_log, n) ==
    Let3(lit_log, shadow_log, IsdMean(lit_log, shadow_log), LAMBDA ll, sl, m :
        [lit_log |-> ll, shadow_log |-> sl, mean |-> m,
         isd |-> IsdUnit(m), cylinder |-> Cylinder(sl, ll, Linspace(n))])

\* the whole script (lines 5 to 70)
CylinderScript(lit, factor, n) ==
    CylinderFromLogs(LitLog(lit), LitLog(Shadow(lit, factor)), n)

\* ------------------------------------------------------------ linear_log_comparison.py

EpsLinLog == 100

\* an image is modelled by the sequence of its components
RECURSIVE SeqMin(_, _)
SeqMin(a, n) == IF n = 1 THEN a[1] ELSE FMin(SeqMin(a, n - 1), a[n])

RECURSIVE SeqMax(_, _)
SeqMax(a, n) == IF n = 1 THEN a[1] ELSE FMax(SeqMax(a, n - 1), a[n])

\* normalize01(arr): (arr - m) / (M - m + 1e-8); the stabilizer decides the
\* quotient only for a constant array, where every numerator is 0
normalize01(arr) ==
    Let1(arr, LAMBDA x :
    Let2(SeqMin(x, Len(x)), SeqMax(x, Len(x)), LAMBDA m, M :
        [i \in 1..Len(x) |-> DivStab(FSub(x[i], m), FSub(M, m))]))

\* log_img = np.log(img + eps)
LinLogImage(img, eps) == Let1(img, LAMBDA x : [i \in 1..Len(x) |-> FLog(FAdd(x[i], eps))])

\* to_log_rgb(img, eps) of linear_log_comparison.py
linlog_to_log_rgb(img, eps) == normalize01(LinLogImage(img, eps))

\* ------------------------------------------------------------ inputs

MaxDir == 2
MaxCoef == 2
MaxK == 3
MaxN == 4

\* directions: the integer grid, as given and normalized to unit length, some
\* unit directions on either side of the helper threshold, and the zero vector
GridDirs ==
    { <<x * ONE, y * ONE, z * ONE>> :
        x \in (0 - MaxDir)..MaxDir, y \in (0 - MaxDir)..MaxDir, z \in (0 - MaxDir)..MaxDir }
    \ {Zero3}

ThresholdDirs ==
    { <<8999, 4361, 0>>, <<9000, 4359, 0>>, <<0 - 8999, 0, 4361>>, <<0 - 9000, 3082, 3082>>,
      <<8998, 3085, 3085>>, <<9001, 0, 0 - 4357>> }

UnitDirs == { VDivStab(d, Norm(d)) : d \in GridDirs } \cup ThresholdDirs

Directions == GridDirs \cup UnitDirs \cup {Zero3}

IsUnit(d) == Abs(Norm(d) - ONE) <= 1

\* plane coordinates: multiples of 0.25
Coefs == { k * 2500 : k \in (0 - MaxCoef)..MaxCoef }

\* log-RGB points and plane origins
LogPoints ==
    { <<0 - 6931, 0 - 6931, 0 - 5108>>, <<0 - 16095, 0 - 13863, 0 - 5979>>,
      <<0 - 1054, 0 - 3567, 0 - 5108>>, <<0 - 184207, 0, 2500>> }

Origins == { Zero3, <<0 - 11513, 0 - 10397, 0 - 5544>> }

\* linear radiance samples (RAD units): the script's lit samples, dark, zero
\* and negative (noise) components
RadSamples ==
    { <<90000000, 70000000, 60000000>>, <<85000000, 65000000, 55000000>>,
      <<50000000, 50000000, 60000000>>, <<0, 1, 100>>,
      <<0 - 200000, 50, 100000000>>, <<2, 99, 101>> }

RadBatches == { <<p, q>> : p \in RadSamples, q \in RadSamples }

EpsValues == {EpsChroma, EpsLinLog}

\* illuminants: the demo's (A, D) and a pair that is red-dominated
Ambients == { <<25000000, 35000000, 95000000>>, <<5000000, 90000000, 90000000>> }
Directs == { <<100000000, 95000000, 80000000>>, <<100000000, 5000000, 5000000>>, Zero3 }

PositiveBatches ==
    { <<p, q>> : p \in { <<50000000, 50000000, 60000000>>, <<20000000, 25000000, 55000000>> },
                 q \in { <<90000000, 70000000, 60000000>>, <<14000000, 19000000, 52000000>> } }

\* lit samples of the cylinder script and shadow/lit ratios (ONE units)
LitLiteral ==
    << <<90000000, 70000000, 60000000>>, <<85000000, 65000000, 55000000>>,
       <<80000000, 60000000, 50000000>> >>

FactorLiteral == <<5000, 6000, 9000>>

LitBatches ==
    { LitLiteral, << <<90000000, 70000000, 60000000>> >>,
      << <<30000000, 100000000, 45000000>>, <<12000000, 8000000, 99000000>> >>,
      << <<0, 70000000, 60000000>>, <<0 - 1000, 65000000, 55000000>> >> }

Factors ==
    { FactorLiteral, <<ONE, ONE, ONE>>, <<9000, 5000, 6000>>, <<3000, 3000, 3000>>,
      <<8000, 2000, 7000>> }

SampleCounts == 2..MaxN \cup {SampleCount}

\* log samples handed to the script's second half directly
LogPairs ==
    { << << <<ONE, ONE, ONE>> >>, << Zero3 >> >>,
      << LitLog(LitLiteral), LitLog(Shadow(LitLiteral, FactorLiteral)) >>,
      << LitLog(LitLiteral), LitLog(LitLiteral) >>,
      << << <<0, 5000, 0 - 3000>>, <<2000, 0 - 1000, 0>> >>,
         << <<0 - 4000, 6000, 0 - 3000>>, <<1000, 1000, 0 - 2000>> >> >>,
      << << <<1000, 0, 500>>, <<0 - 1000, 0, 0 - 500>> >>,
         << Zero3, Zero3 >> >> }

Scales == ((0 - MaxK)..MaxK) \ {0}

\* images (RAD units), flattened
Images ==
    { <<0, 50000000, 100000000>>, <<30000000, 30000000>>, <<1, 99, 100>>,
      <<0 - 100, 50000000>>, <<0 - 500000, 25000000, 100000000>> }

\* ------------------------------------------------------------ the caller

VARIABLES op, args, after, ret, ctx, raised

vars == <<op, args, after, ret, ctx, raised>>

\* op:     the call last made ("idle": none)
\* args:   the argument arrays as the caller held them before the call
\* after:  the same arrays after the call
\* ret:    what the call returned
\* ctx:    what else the caller knows (how it built the arguments)
\* raised: the exception the call raised ("none": it returned)

NoCtx == [k |-> 0]

Init ==
    /\ op = "idle"
    /\ args = <<>>
    /\ after = <<>>
    /\ ret = <<>>
    /\ ctx = NoCtx
    /\ raised = "none"

CallToLogRgb ==
    /\ op = "idle"
    /\ \E I \in RadBatches, eps \in EpsValues :
       \E c \in { to_log_rgb(Frame(<<I>>, [n \in {"I"} |-> 1]), eps) } :
         /\ op' = "to_log_rgb"
         /\ args' = <<I>>
         /\ after' = SubSeq(c.objs, 1, 1)
         /\ ret' = c.ret
         /\ ctx' = [eps |-> eps]
    /\ raised' = "none"

CallBasis ==
    /\ op = "idle"
    /\ \E d \in Directions :
       \E c \in { orthonormal_basis_from_vector(Frame(<<d>>, [n \in {"v"} |-> 1])) } :
       \E loc \in { BasisReject(BasisNormalize(Frame(<<d>>, [n \in {"v"} |-> 1]))) } :
         /\ op' = "basis"
         /\ args' = <<d>>
         /\ after' = SubSeq(c.objs, 1, 1)
         /\ ret' = c.ret
         /\ ctx' = [v |-> Val(loc, "v"), a |-> Val(loc, "a"), rej |-> Val(loc, "u1")]
    /\ raised' = "none"

ProjectParams ==
    [n \in {"points", "origin", "u1", "u2"} |->
        IF n = "points" THEN 1 ELSE IF n = "origin" THEN 2 ELSE IF n = "u1" THEN 3 ELSE 4]

\* the point origin + a u1 + b u2, as the caller builds it
InPlane(origin, a, u1, b, u2) == VAdd(VAdd(origin, VScale(a, u1)), VScale(b, u2))

\* the caller projects two points it built in the plane of the basis it holds,
\* with the coordinates (a, b) and (b, -a)
CallProjectInPlane ==
    /\ op = "basis"
    /\ IsUnit(args[1])
    /\ \E origin \in Origins, a \in Coefs, b \in Coefs :
       \E pts \in { << InPlane(origin, a, ret[1], b, ret[2]),
                       InPlane(origin, b, ret[1], 0 - a, ret[2]) >> } :
       \E c \in { project_onto_plane(Frame(<<pts, origin, ret[1], ret[2]>>, ProjectParams)) } :
         /\ op' = "project_in_plane"
         /\ args' = <<pts, origin, ret[1], ret[2]>>
         /\ after' = SubSeq(c.objs, 1, 4)
         /\ ret' = c.ret
         /\ ctx' = [v |-> args[1], a |-> <<a, b>>, b |-> <<b, 0 - a>>]
    /\ raised' = "none"

\* the caller projects arbitrary points
CallProject ==
    /\ op = "basis"
    /\ IsUnit(args[1])
    /\ \E origin \in Origins, p \in LogPoints, q \in LogPoints :
       \E c \in { project_onto_plane(
                      Frame(<< <<p, q>>, origin, ret[1], ret[2] >>, ProjectParams)) } :
         /\ op' = "project"
         /\ args' = << <<p, q>>, origin, ret[1], ret[2] >>
         /\ after' = SubSeq(c.objs, 1, 4)
         /\ ret' = c.ret
         /\ ctx' = [v |-> args[1]]
    /\ raised' = "none"

DemoParams == [n \in {"A", "D", "I"} |-> IF n = "A" THEN 1 ELSE IF n = "D" THEN 2 ELSE 3]

Demo ==
    /\ op = "idle"
    /\ \E A \in Ambients, D \in Directs, I \in PositiveBatches :
       \E s \in { demo_plane_visualization(Frame(<<A, D, I>>, DemoParams)) } :
         /\ op' = "demo"
         /\ args' = <<A, D, I>>
         /\ after' = SubSeq(s.objs, 1, 3)
         /\ ret' = [n \in {"L", "isd", "u1", "u2", "origin", "L_proj", "a2d", "b2d"} |->
                       Val(s, n)]
    /\ ctx' = NoCtx
    /\ raised' = "none"

RunCylinderScript ==
    /\ op = "idle"
    /\ \E lit \in LitBatches, factor \in Factors, n \in SampleCounts :
         /\ op' = "cylinder_script"
         /\ args' = <<lit, factor>>
         /\ after' = <<lit, factor>>
         /\ ret' = CylinderScript(lit, factor, n)
         /\ ctx' = [n |-> n, shadow |-> Shadow(lit, factor)]
    /\ raised' = "none"

RunCylinderFromLogs ==
    /\ op = "idle"
    /\ \E pair \in LogPairs, n \in SampleCounts :
         /\ op' = "cylinder_logs"
         /\ args' = pair
         /\ after' = pair
         /\ ret' = CylinderFromLogs(pair[1], pair[2], n)
         /\ ctx' = [n |-> n]
    /\ raised' = "none"

\* the caller multiplies every lit-minus-shadow difference by k and estimates again
RescaleDifferences ==
    /\ op = "cylinder_logs"
    /\ \E k \in Scales :
       \E diff \in { BatchSub(args[1], args[2]) } :
       \E shadow_log \in { [i \in 1..Len(diff) |-> VSub(args[1][i], VScale(k * ONE, diff[i]))] } :
         /\ op' = "cylinder_rescaled"
         /\ args' = <<args[1], shadow_log>>
         /\ after' = <<args[1], shadow_log>>
         /\ ret' = CylinderFromLogs(args[1], shadow_log, ctx.n)
         /\ ctx' = [n |-> ctx.n, k |-> k, isd |-> ret.isd, mean |-> ret.mean]
    /\ raised' = "none"

CallLinLogToLogRgb ==
    /\ op = "idle"
    /\ \E img \in Images :
         /\ op' = "linlog_to_log_rgb"
         /\ args' = <<img>>
         /\ after' = <<img>>
         /\ ret' = linlog_to_log_rgb(img, EpsLinLog)
         /\ ctx' = [log_img |-> LinLogImage(img, EpsLinLog)]
    /\ raised' = "none"

\* the caller drops the results and is ready for the next call
Return ==
    /\ op # "idle"
    /\ op' = "idle"
    /\ args' = <<>>
    /\ after' = <<>>
    /\ ret' = <<>>
    /\ ctx' = NoCtx
    /\ raised' = "none"

Next ==
    \/ CallToLogRgb
    \/ CallBasis
    \/ CallProjectInPlane
    \/ CallProject
    \/ Demo
    \/ RunCylinderScript
    \/ RunCylinderFromLogs
    \/ RescaleDifferences
    \/ CallLinLogToLogRgb
    \/ Return

Spec == Init /\ [][Next]_vars

\* ------------------------------------------------------------ properties

\* The model's resolution is 1/ONE; Tol is the number of units of it that two
\* results of separately rounded computations may differ by.
Tol == 2

Near(a, b, tol) == IsFinite(a) /\ IsFinite(b) /\ Abs(a - b) <= tol

VNear(u, v, tol) == \A c \in 1..3 : Near(u[c], v[c], tol)

BatchFinite(B) == \A i \in 1..Len(B) : VecFinite(B[i])

CylinderOps == {"cylinder_script", "cylinder_logs", "cylinder_rescaled"}

OrthonormalRightHanded(d, u1, u2) ==
    /\ Near(Norm(u1), ONE, Tol)
    /\ Near(Norm(u2), ONE, Tol)
    /\ Near(Dot(d, u1), 0, Tol)
    /\ Near(Dot(d, u2), 0, Tol)
    /\ Near(Dot(u1, u2), 0, Tol)
    /\ VNear(Cross(d, u1), u2, Tol)

\* C1: for every unit direction d the basis (u1, u2) returned for it has unit
\* length vectors, d.u1 = 0, d.u2 = 0, u1.u2 = 0 and u2 = d x u1, within
\* tolerance, whichever helper axis was taken; the same holds of the basis the
\* demo builds for its ISD.
C1_BasisOrthonormal ==
    /\ (op = "basis" /\ IsUnit(args[1])) =>
           OrthonormalRightHanded(args[1], ret[1], ret[2])
    /\ (op = "demo" /\ IsUnit(ret.isd)) =>
           OrthonormalRightHanded(ret.isd, ret.u1, ret.u2)

\* a unit direction for which the Y helper was taken
C1_Witness == op = "basis" /\ IsUnit(args[1]) /\ ctx.a = AxisY /\ VecFinite(ret[2])

ProjectionOf(points, origin, v, u1, u2, proj, a, b) ==
    /\ Len(proj) = Len(points)
    /\ Len(a) = Len(points)
    /\ Len(b) = Len(points)
    /\ \A i \in 1..Len(points) :
          /\ a[i] = Dot(VSub(points[i], origin), u1)
          /\ b[i] = Dot(VSub(points[i], origin), u2)
          /\ proj[i] = VAdd(VAdd(origin, VScale(a[i], u1)), VScale(b[i], u2))
          /\ Near(Dot(VSub(proj[i], origin), v), 0,
                  Tol * (1 + (Norm(VSub(points[i], origin)) \div ONE)))

\* C3: for every point p_i, in the plane or not, the i-th result of the
\* projection is (origin + a_i u1 + b_i u2, a_i, b_i) with a_i = (p_i - origin).u1
\* and b_i = (p_i - origin).u2; the projected point minus the origin has no
\* component along v (within a tolerance relative to the offset's length); there
\* is one result per input point, at the input's index.  The demo's projection
\* of its log samples is one such call.
C3_ProjectionFormula ==
    /\ op \in {"project", "project_in_plane"} =>
           ProjectionOf(args[1], args[2], ctx.v, args[3], args[4],
                        ret[1], ret[2], ret[3])
    /\ (op = "demo" /\ IsUnit(ret.isd)) =>
           ProjectionOf(ret.L, ret.origin, ret.isd, ret.u1, ret.u2,
                        ret.L_proj, ret.a2d, ret.b2d)

\* two different points, the first more than one unit off the plane
C3_Witness ==
    /\ op = "project"
    /\ args[1][1] # args[1][2]
    /\ Abs(Dot(VSub(args[1][1], args[2]), ctx.v)) > ONE
    /\ ret[1][1] # args[1][1]

\* C4: the trajectory from the shadow anchor S to the lit anchor L with n >= 2
\* values of t has n points, the first is S, the last is L, every point is
\* collinear with S and L and lies between them; S = (0,0,0), L = (1,1,1), n = 3
\* gives (0,0,0), (0.5,0.5,0.5), (1,1,1).
C4_Trajectory ==
    /\ (op \in CylinderOps /\ BatchFinite(ret.lit_log) /\ BatchFinite(ret.shadow_log)) =>
           \E S \in { Mean0(ret.shadow_log) } :
           \E L \in { Mean0(ret.lit_log) } :
               /\ ctx.n >= 2
               /\ Len(ret.cylinder) = ctx.n
               /\ ret.cylinder[1] = S
               /\ VNear(ret.cylinder[ctx.n], L, Tol)
               /\ \A i \in 1..ctx.n :
                     /\ VNear(Cross(VSub(ret.cylinder[i], S), VSub(L, S)), Zero3,
                              Tol * (1 + (Norm(VSub(L, S)) \div ONE)))
                     /\ \A c \in 1..3 :
                           /\ MinOf(S[c], L[c]) <= ret.cylinder[i][c]
                           /\ ret.cylinder[i][c] <= MaxOf(S[c], L[c])
    /\ (op = "cylinder_logs" /\ args = << << <<ONE, ONE, ONE>> >>, << Zero3 >> >> /\ ctx.n = 3) =>
           ret.cylinder = << Zero3, <<ONE \div 2, ONE \div 2, ONE \div 2>>, <<ONE, ONE, ONE>> >>

\* a trajectory of more than two points between two different anchors
C4_Witness ==
    /\ op = "cylinder_script"
    /\ BatchFinite(ret.lit_log)
    /\ BatchFinite(ret.shadow_log)
    /\ ctx.n > 2
    /\ ret.cylinder[1] # ret.cylinder[ctx.n]
    /\ ret.cylinder[2] # ret.cylinder[1]

\* the vector about to be normalized has no length: the mean log difference of
\* the ISD estimate, or the direction handed to the basis builder
Degenerate ==
    \/ op \in CylinderOps /\ VecFinite(ret.mean) /\ Norm(ret.mean) = 0
    \/ op = "basis" /\ Norm(args[1]) = 0

\* C5 as stated: whenever the vector about to be normalized has near-zero norm,
\* the component signals a DegenerateDirectionError and returns no vector.
C5_DegenerateSignalled == Degenerate => (raised = "DegenerateDirectionError" /\ ret = <<>>)

ClampedLog(x, eps) == FLog(MaxOf(x, eps))

\* C6 as stated: every log transform of the repository returns log(max(x, eps))
\* for each input component x.
C6_EveryTransformClamps ==
    /\ op = "to_log_rgb" =>
           \A i \in 1..Len(args[1]) : \A c \in 1..3 :
               ret[i][c] = ClampedLog(args[1][i][c], ctx.eps)
    /\ op = "cylinder_script" =>
           \A i \in 1..Len(args[1]) : \A c \in 1..3 :
               ret.lit_log[i][c] = ClampedLog(args[1][i][c], EpsChroma)
    /\ op = "linlog_to_log_rgb" =>
           \A i \in 1..Len(args[1]) : ret[i] = ClampedLog(args[1][i], EpsLinLog)

\* C6: to_log_rgb of the plane module returns log(max(x, eps)) for each input
\* component x, zero and negative ones included: finite, never below log(eps),
\* and log(x) when x >= eps.  The other two transforms do not clamp: the
\* cylinder script takes log(x), which is -inf at zero and NaN below, and the
\* comparison script takes log(x + eps), which is NaN when x + eps < 0 and above
\* log(x) for 0 < x <= eps, and rescales it to [0, 1].
C6_ClampInPlaneModuleOnly ==
    /\ op = "to_log_rgb" =>
           \A i \in 1..Len(args[1]) : \A c \in 1..3 :
               /\ ret[i][c] = ClampedLog(args[1][i][c], ctx.eps)
               /\ IsFinite(ret[i][c])
               /\ ret[i][c] >= FLog(ctx.eps)
               /\ args[1][i][c] >= ctx.eps => ret[i][c] = FLog(args[1][i][c])
    /\ op = "cylinder_script" =>
           \A i \in 1..Len(args[1]) : \A c \in 1..3 :
               /\ ret.lit_log[i][c] = FLog(args[1][i][c])
               /\ args[1][i][c] = 0 => ret.lit_log[i][c] = NegInf
               /\ args[1][i][c] < 0 => IsNaN(ret.lit_log[i][c])
               /\ ret.shadow_log[i][c] = FLog(ctx.shadow[i][c])
    /\ op = "linlog_to_log_rgb" =>
           /\ \A i \in 1..Len(args[1]) :
                 /\ ctx.log_img[i] = FLog(FAdd(args[1][i], EpsLinLog))
                 /\ args[1][i] + EpsLinLog < 0 => IsNaN(ctx.log_img[i])
                 /\ (args[1][i] > 0 /\ args[1][i] <= EpsLinLog) =>
                        (IsFinite(ctx.log_img[i]) /\ ctx.log_img[i] > FLog(args[1][i]))
           /\ (\A i \in 1..Len(args[1]) : args[1][i] >= 0) =>
                  \A i \in 1..Len(args[1]) : ret[i] >= 0 /\ ret[i] <= ONE

\* a batch with a negative component and one below eps, clamped
C6_Witness ==
    /\ op = "to_log_rgb"
    /\ \E i \in 1..Len(args[1]) : \E c \in 1..3 : args[1][i][c] < 0
    /\ \E i \in 1..Len(args[1]) : \E c \in 1..3 :
           args[1][i][c] >= 0 /\ args[1][i][c] < ctx.eps

\* C7: for sample pairs with a non-zero mean difference, multiplying every
\* lit-minus-shadow difference by k > 0 leaves the estimated ISD unchanged, and
\* multiplying by k < 0 flips its sign, within tolerance.
C7_ScaleInvariance ==
    (op = "cylinder_rescaled" /\ VecFinite(ctx.mean) /\ Norm(ctx.mean) # 0) =>
        /\ Near(Norm(ret.isd), ONE, Tol)
        /\ ctx.k > 0 => VNear(ret.isd, ctx.isd, Tol)
        /\ ctx.k < 0 => VNear(ret.isd, VScale(0 - ONE, ctx.isd), Tol)

\* differences multiplied by a negative constant other than -1
C7_Witness ==
    /\ op = "cylinder_rescaled"
    /\ VecFinite(ctx.mean)
    /\ Norm(ctx.mean) # 0
    /\ ctx.k < 0 - 1
    /\ ret.isd # ctx.isd

ShadowBelowLit ==
    /\ BatchFinite(ret.lit_log)
    /\ BatchFinite(ret.shadow_log)
    /\ \A i \in 1..Len(ret.lit_log) : \A c \in 1..3 :
           ret.shadow_log[i][c] < ret.lit_log[i][c]

\* C8: when every shadow sample is below its lit sample in every channel, every
\* component of the ISD is positive; when the shadow samples are the lit ones
\* scaled by (0.5, 0.6, 0.9), the components are ordered R > G > B > 0; for the
\* script's own samples the ISD is (0.799, 0.589, 0.121).
C8_IsdSign ==
    /\ (op \in CylinderOps /\ ShadowBelowLit) =>
           \A c \in 1..3 : IsFinite(ret.isd[c]) /\ ret.isd[c] > 0
    /\ (op = "cylinder_script" /\ args[2] = FactorLiteral /\ ShadowBelowLit) =>
           /\ VecFinite(ret.isd)
           /\ ret.isd[1] > ret.isd[2]
           /\ ret.isd[2] > ret.isd[3]
           /\ ret.isd[3] > 0
    /\ (op = "cylinder_script" /\ args = <<LitLiteral, FactorLiteral>>) =>
           VNear(ret.isd, <<7990, 5889, 1215>>, Tol)

\* the script's samples and factors
C8_Witness ==
    /\ op = "cylinder_script"
    /\ args = <<LitLiteral, FactorLiteral>>
    /\ ShadowBelowLit
    /\ ret.isd[1] > ret.isd[2]

C10_InputsUnchanged ==
    op \in {"to_log_rgb", "basis", "project", "project_in_plane", "demo"} =>
        after = args

\* a direction that is not of unit length: the function's own v differs from it
C10_Witness ==
    /\ op = "basis"
    /\ VecFinite(ctx.v)
    /\ ctx.v # args[1]
    /\ ~IsUnit(args[1])

====
